---- MODULE Spec2Model ----
(***************************************************************************)
(* Model of the Minesweeper board state machine, its Action API and the    *)
(* solver that plays through it (minesweeper/tile.py, minesweeper/grid.py, *)
(* minesweeper/game.py, minesweeper/api.py, minesweeper/ai/solver.py).     *)
(* Rendering (draw, update_display, overlays) is left out: it reads the    *)
(* state and never writes it.                                              *)
(***************************************************************************)
EXTENDS Integers, Sequences, FiniteSets, TLC

\* The two board configurations of game.py, scaled down: the desktop one
\* (16 x 25, 80 mines) and the mobile one (15 x 10, 30 mines).
DESKTOP_ROWS == 2
DESKTOP_COLS == 5
DESKTOP_N_BOMBS == 1
MOBILE_ROWS == 2
MOBILE_COLS == 6
MOBILE_N_BOMBS == 2

\* Number of Action API calls explored per game (restart_game starts a new game).
MaxCalls == 3

\* Tile.value of a tile without a number: every tile before placement, bombs after.
None == -1

\* Position value of a result without bomb_position.
NoPos == <<>>

VARIABLES
    IS_MOBILE,              \* game.py IS_MOBILE, fixed when the program starts
    is_hidden,              \* Tile.is_hidden, per tile
    is_flagged,             \* Tile.is_flagged, per tile
    is_bomb,                \* Tile.is_bomb, per tile
    value,                  \* Tile.value, per tile (None or 0..8)
    hidden_neighbours,      \* Tile.hidden_neighbours, per tile
    flagged_neighbours,     \* Tile.flagged_neighbours, per tile
    game_status,            \* MinesweeperGame.game_status
    revealed_count,         \* MinesweeperGame.revealed_count
    flagged_count,          \* MinesweeperGame.flagged_count
    bombs_placed,           \* MinesweeperGame.bombs_placed
    newly_revealed_tiles,   \* MinesweeperAPI.newly_revealed_tiles
    newly_flagged_tiles,    \* MinesweeperAPI.newly_flagged_tiles
    newly_unflagged_tiles,  \* MinesweeperAPI.newly_unflagged_tiles
    updated_neighbours,     \* MinesweeperAPI.updated_neighbours
    grid_is_game_grid,      \* MinesweeperAPI.grid is MinesweeperGame.grid
    solver_pc,              \* where MinesweeperSolver.start stands ("none": no solver)
    active_tiles,           \* MinesweeperSolver.active_tiles: tile -> priority
    popped,                 \* the (tile, priority) start() popped last
    pending,                \* satisfy_tile: the neighbours its loop has still to visit
    tiles_to_update,        \* satisfy_tile / try_satisfy_tile: updated_tiles so far
    fed_back,               \* history: tiles the feedbacks named since the last pop
    call,                   \* the Action API call that produced this state
    ret,                    \* the dictionary that call returned
    calls                   \* Action API calls made in the current game

board == <<is_hidden, is_flagged, is_bomb, value, hidden_neighbours, flagged_neighbours>>
session == <<game_status, revealed_count, flagged_count, bombs_placed>>
tracking == <<newly_revealed_tiles, newly_flagged_tiles, newly_unflagged_tiles, updated_neighbours>>
solver == <<solver_pc, active_tiles, popped, pending, tiles_to_update, fed_back>>
vars == <<IS_MOBILE, board, session, tracking, grid_is_game_grid, solver, call, ret, calls>>

\* The active configuration.
ROWS == IF IS_MOBILE THEN MOBILE_ROWS ELSE DESKTOP_ROWS
COLS == IF IS_MOBILE THEN MOBILE_COLS ELSE DESKTOP_COLS
N_BOMBS == IF IS_MOBILE THEN MOBILE_N_BOMBS ELSE DESKTOP_N_BOMBS

----------------------------------------------------------------------------
\* Grid geometry

\* The grid of each configuration, and the grid in use.
make_grid ==
    [mobile \in BOOLEAN |->
        IF mobile THEN (0 .. MOBILE_ROWS - 1) \X (0 .. MOBILE_COLS - 1)
        ELSE (0 .. DESKTOP_ROWS - 1) \X (0 .. DESKTOP_COLS - 1)]

Tiles == make_grid[IS_MOBILE]

non_bomb_tiles_count == ROWS * COLS - N_BOMBS

_is_valid_position(row, col) == 0 <= row /\ row < ROWS /\ 0 <= col /\ col < COLS

directions ==
    << <<-1, -1>>, <<-1, 0>>, <<-1, 1>>, <<0, 1>>,
       <<1, 1>>, <<1, 0>>, <<1, -1>>, <<0, -1>> >>

IsTile(p) == _is_valid_position(p[1], p[2])

\* Tile.neighbours as filled by Grid.connect_neighbours, in direction order,
\* for the grid of each configuration.
connect_neighbours ==
    [mobile \in BOOLEAN |->
        [t \in make_grid[mobile] |->
            LET on_grid(p) == p \in make_grid[mobile]
            IN SelectSeq([i \in 1 .. 8 |->
                             <<t[1] + directions[i][1], t[2] + directions[i][2]>>],
                         on_grid)]]

neighbours(t) == connect_neighbours[IS_MOBILE][t]

Range(seq) == {seq[i] : i \in 1 .. Len(seq)}

NeighbourSets ==
    [mobile \in BOOLEAN |->
        [t \in make_grid[mobile] |-> Range(connect_neighbours[mobile][t])]]

Nbrs(t) == NeighbourSets[IS_MOBILE][t]

----------------------------------------------------------------------------
\* The whole mutable state as one record, threaded through the operations.

State ==
    [is_hidden |-> is_hidden, is_flagged |-> is_flagged, is_bomb |-> is_bomb,
     value |-> value, hidden_neighbours |-> hidden_neighbours,
     flagged_neighbours |-> flagged_neighbours, game_status |-> game_status,
     revealed_count |-> revealed_count, flagged_count |-> flagged_count,
     bombs_placed |-> bombs_placed, newly_revealed_tiles |-> newly_revealed_tiles,
     newly_flagged_tiles |-> newly_flagged_tiles,
     newly_unflagged_tiles |-> newly_unflagged_tiles,
     updated_neighbours |-> updated_neighbours,
     grid_is_game_grid |-> grid_is_game_grid]

Assign(s) ==
    /\ is_hidden' = s.is_hidden
    /\ is_flagged' = s.is_flagged
    /\ is_bomb' = s.is_bomb
    /\ value' = s.value
    /\ hidden_neighbours' = s.hidden_neighbours
    /\ flagged_neighbours' = s.flagged_neighbours
    /\ game_status' = s.game_status
    /\ revealed_count' = s.revealed_count
    /\ flagged_count' = s.flagged_count
    /\ bombs_placed' = s.bombs_placed
    /\ newly_revealed_tiles' = s.newly_revealed_tiles
    /\ newly_flagged_tiles' = s.newly_flagged_tiles
    /\ newly_unflagged_tiles' = s.newly_unflagged_tiles
    /\ updated_neighbours' = s.updated_neighbours
    /\ grid_is_game_grid' = s.grid_is_game_grid

\* Grid.make_grid + MinesweeperGame.setup / restart: a fresh board and session.
\* The API's tracking sets are passed in: restart_game empties them itself.
\* The grid is a new object, which the API does not refer to yet.
FreshState ==
    [is_hidden |-> [t \in Tiles |-> TRUE],
     is_flagged |-> [t \in Tiles |-> FALSE],
     is_bomb |-> [t \in Tiles |-> FALSE],
     value |-> [t \in Tiles |-> None],
     hidden_neighbours |-> [t \in Tiles |-> Nbrs(t)],
     flagged_neighbours |-> [t \in Tiles |-> {}],
     game_status |-> "playing",
     revealed_count |-> 0,
     flagged_count |-> 0,
     bombs_placed |-> FALSE,
     newly_revealed_tiles |-> {},
     newly_flagged_tiles |-> {},
     newly_unflagged_tiles |-> {},
     updated_neighbours |-> {},
     grid_is_game_grid |-> FALSE]

----------------------------------------------------------------------------
\* Tile properties

n_hidden_neighbours(s, t) == Cardinality(s.hidden_neighbours[t])

n_flagged_neighbours(s, t) == Cardinality(s.flagged_neighbours[t])

is_numbered(s, t) == ~s.is_hidden[t] /\ ~s.is_bomb[t] /\ s.value[t] > 0

is_satisfied(s, t) == s.value[t] = n_flagged_neighbours(s, t)

\* A test that also passes when the tile has more hidden neighbours than it
\* has bombs left to find.
is_satisfiable_at_most(s, t) == s.value[t] <= n_hidden_neighbours(s, t) + n_flagged_neighbours(s, t)

is_satisfiable(s, t) == s.value[t] = n_hidden_neighbours(s, t) + n_flagged_neighbours(s, t)

----------------------------------------------------------------------------
\* API callbacks

\* A callback that counts the tile but does not record its position.
_increment_revealed_count_untracked(s, t) == [s EXCEPT !.revealed_count = @ + 1]

\* `tile not in newly_revealed_tiles` compares a Tile with the (row, col)
\* tuples the set holds, so the test always passes.
_increment_revealed_count(s, t) ==
    [s EXCEPT !.revealed_count = @ + 1,
              !.newly_revealed_tiles = @ \cup {t}]

\* A flag callback that records the toggled tile as a revealed one.
_track_flag_change_as_reveal(s, t, was_flagged) == _increment_revealed_count(s, t)

_track_flag_change(s, t, was_flagged) ==
    IF was_flagged
    THEN [s EXCEPT !.newly_unflagged_tiles = @ \cup {t}]
    ELSE [s EXCEPT !.newly_flagged_tiles = @ \cup {t}]

_track_neighbour_update(s, n) == [s EXCEPT !.updated_neighbours = @ \cup {n}]

----------------------------------------------------------------------------
\* Neighbour relationship management (one loop iteration per neighbour)

on_reveal_step(s, t, n) ==
    IF s.value[n] # 0 /\ t \in s.hidden_neighbours[n]
    THEN _track_neighbour_update([s EXCEPT !.hidden_neighbours[n] = @ \ {t}], n)
    ELSE s

\* on_flag that leaves the flagged tile in its neighbours' hidden_neighbours.
on_flag_step_keeps_hidden(s, t, n) ==
    IF s.value[n] = 0 THEN s
    ELSE IF t \notin s.flagged_neighbours[n]
    THEN _track_neighbour_update([s EXCEPT !.flagged_neighbours[n] = @ \cup {t}], n)
    ELSE s

on_flag_step(s, t, n) ==
    IF s.value[n] = 0 THEN s
    ELSE LET add == t \notin s.flagged_neighbours[n]
             s1 == IF add THEN [s EXCEPT !.flagged_neighbours[n] = @ \cup {t}] ELSE s
             rem == t \in s1.hidden_neighbours[n]
             s2 == IF rem THEN [s1 EXCEPT !.hidden_neighbours[n] = @ \ {t}] ELSE s1
         IN IF add \/ rem THEN _track_neighbour_update(s2, n) ELSE s2

remove_flag_step(s, t, n) ==
    IF s.value[n] = 0 THEN s
    ELSE LET rem == t \in s.flagged_neighbours[n]
             s1 == IF rem THEN [s EXCEPT !.flagged_neighbours[n] = @ \ {t}] ELSE s
             add == t \notin s1.flagged_neighbours[n]
             s2 == IF add THEN [s1 EXCEPT !.flagged_neighbours[n] = @ \cup {t}] ELSE s1
         IN IF rem \/ add THEN _track_neighbour_update(s2, n) ELSE s2

RECURSIVE on_reveal_from(_, _, _)
on_reveal_from(s, t, i) ==
    IF i > Len(neighbours(t)) THEN s
    ELSE on_reveal_from(on_reveal_step(s, t, neighbours(t)[i]), t, i + 1)

on_reveal(s, t) == on_reveal_from(s, t, 1)

RECURSIVE on_flag_from(_, _, _)
on_flag_from(s, t, i) ==
    IF i > Len(neighbours(t)) THEN s
    ELSE on_flag_from(on_flag_step(s, t, neighbours(t)[i]), t, i + 1)

on_flag(s, t) == on_flag_from(s, t, 1)

RECURSIVE remove_flag_from(_, _, _)
remove_flag_from(s, t, i) ==
    IF i > Len(neighbours(t)) THEN s
    ELSE remove_flag_from(remove_flag_step(s, t, neighbours(t)[i]), t, i + 1)

remove_flag(s, t) == remove_flag_from(s, t, 1)

----------------------------------------------------------------------------
\* Tile.flag: toggle

\* A toggle that opens the tile it marks.
flag_opens(s, t) == [s EXCEPT !.is_flagged[t] = ~@, !.is_hidden[t] = FALSE]

flag(s, t) ==
    LET was_flagged == s.is_flagged[t]
        s1 == IF was_flagged
              THEN remove_flag([s EXCEPT !.is_flagged[t] = FALSE], t)
              ELSE on_flag([s EXCEPT !.is_flagged[t] = TRUE], t)
    IN _track_flag_change(s1, t, was_flagged)

----------------------------------------------------------------------------
\* Tile.reveal: cascade reveal from one tile

RECURSIVE reveal_loop(_, _, _, _)
reveal_loop(s, queue, visited, bomb_revealed) ==
    IF queue = <<>> THEN [s |-> s, bomb_revealed |-> bomb_revealed]
    ELSE LET tile == Head(queue)
             rest == Tail(queue)
         IN IF tile \in visited THEN reveal_loop(s, rest, visited, bomb_revealed)
            ELSE LET br == bomb_revealed \/ s.is_bomb[tile]
                     v1 == visited \cup {tile}
                     s1 == IF s.is_hidden[tile]
                           THEN LET sh == [s EXCEPT !.is_hidden[tile] = FALSE]
                                IN IF ~s.is_bomb[tile]
                                   THEN _increment_revealed_count(sh, tile)
                                   ELSE sh
                           ELSE s
                     s2 == on_reveal(s1, tile)
                     enqueue(n) == s2.is_hidden[n] /\ n \notin v1
                     q1 == IF s2.value[tile] = 0
                           THEN rest \o SelectSeq(neighbours(tile), enqueue)
                           ELSE rest
                 IN reveal_loop(s2, q1, v1, br)

\* A reveal without cascade: it opens the tile and stops.
reveal_single(s, t) ==
    IF ~s.is_hidden[t] THEN [s |-> s, bomb_revealed |-> FALSE]
    ELSE LET sh == [s EXCEPT !.is_hidden[t] = FALSE]
             s1 == IF ~s.is_bomb[t] THEN _increment_revealed_count(sh, t) ELSE sh
         IN [s |-> on_reveal(s1, t), bomb_revealed |-> s.is_bomb[t]]

reveal(s, t) ==
    IF ~s.is_hidden[t] THEN [s |-> s, bomb_revealed |-> FALSE]
    ELSE reveal_loop(s, <<t>>, {}, FALSE)

\* Tile.reveal_batch: cascade reveal from a list of tiles

RECURSIVE reveal_batch_loop(_, _, _, _, _)
reveal_batch_loop(s, queue, visited, bomb_revealed, bomb_position) ==
    IF queue = <<>>
    THEN [s |-> s, bomb_revealed |-> bomb_revealed, bomb_position |-> bomb_position]
    ELSE LET tile == Head(queue)
             rest == Tail(queue)
         IN IF tile \in visited \/ ~s.is_hidden[tile]
            THEN reveal_batch_loop(s, rest, visited, bomb_revealed, bomb_position)
            ELSE LET v1 == visited \cup {tile}
                     br == bomb_revealed \/ s.is_bomb[tile]
                     bp == IF s.is_bomb[tile] THEN tile ELSE bomb_position
                     sh == [s EXCEPT !.is_hidden[tile] = FALSE]
                     s1 == IF ~s.is_bomb[tile]
                           THEN _increment_revealed_count(sh, tile)
                           ELSE sh
                     s2 == on_reveal(s1, tile)
                     enqueue(n) == s2.is_hidden[n] /\ n \notin v1 /\ ~s2.is_flagged[n]
                     q1 == IF s2.value[tile] = 0
                           THEN rest \o SelectSeq(neighbours(tile), enqueue)
                           ELSE rest
                 IN reveal_batch_loop(s2, q1, v1, br, bp)

\* A batch reveal that starts from the first tile of the list only.
reveal_batch_head_only(s, tiles) ==
    reveal_batch_loop(s, IF tiles = <<>> THEN <<>> ELSE <<Head(tiles)>>, {}, FALSE, NoPos)

reveal_batch(s, tiles) == reveal_batch_loop(s, tiles, {}, FALSE, NoPos)

----------------------------------------------------------------------------
\* Mine placement

\* A safe zone that forgets the neighbours of the first click.
safe_tiles_first_only(first_tile) == {first_tile}

\* The tiles kept clear of mines around the first click.
safe_tiles(first_tile) == {first_tile} \cup Nbrs(first_tile)

placeable_tiles(first_tile) == Tiles \ safe_tiles(first_tile)

Min(a, b) == IF a < b THEN a ELSE b

\* Grid.place_bombs: the first n_bombs tiles of a shuffle of the list, that is
\* any n_bombs of its tiles (all of them when the list is shorter).
place_bombs(placeable) ==
    {B \in SUBSET placeable : Cardinality(B) = Min(N_BOMBS, Cardinality(placeable))}

\* A numbering that skips the increments: every tile without a bomb keeps 0.
set_numbers_zero(bomb_tiles) ==
    [t \in Tiles |-> IF t \in bomb_tiles THEN None ELSE 0]

\* Grid.set_numbers: bombs get None, every other tile the number of bombs
\* it is a neighbour of.
set_numbers(bomb_tiles) ==
    [t \in Tiles |-> IF t \in bomb_tiles THEN None
                     ELSE Cardinality({b \in bomb_tiles : t \in Nbrs(b)})]

place_bombs_after_first_click(s, bomb_tiles) ==
    [s EXCEPT !.is_bomb = [t \in Tiles |-> s.is_bomb[t] \/ t \in bomb_tiles],
              !.value = set_numbers(bomb_tiles)]

----------------------------------------------------------------------------
\* Game state transitions

\* The rejected flag_tile calls won() makes after it has set the status:
\* each one empties the API's flag and neighbour tracking sets and returns
\* game_not_active.
flag_tile_when_not_active(s) ==
    [s EXCEPT !.newly_flagged_tiles = {},
              !.newly_unflagged_tiles = {},
              !.updated_neighbours = {}]

won(s) ==
    LET s1 == [s EXCEPT !.game_status = "won"]
    IN IF \E t \in Tiles : s1.is_hidden[t] /\ ~s1.is_flagged[t]
       THEN flag_tile_when_not_active(s1)
       ELSE s1

\* lost() that reveals the bombs but leaves the status as it was.
lost_keeps_status(s) ==
    [s EXCEPT !.is_hidden = [t \in Tiles |-> IF s.is_bomb[t] /\ s.is_hidden[t]
                                             THEN FALSE ELSE s.is_hidden[t]]]

lost(s) ==
    [s EXCEPT !.game_status = "lost",
              !.is_hidden = [t \in Tiles |-> IF s.is_bomb[t] /\ s.is_hidden[t]
                                             THEN FALSE ELSE s.is_hidden[t]]]

\* A restart that builds the new board but keeps the old revealed_count.
restart_keeps_count(s) ==
    [FreshState EXCEPT !.revealed_count = s.revealed_count,
                       !.newly_revealed_tiles = s.newly_revealed_tiles,
                       !.newly_flagged_tiles = s.newly_flagged_tiles,
                       !.newly_unflagged_tiles = s.newly_unflagged_tiles,
                       !.updated_neighbours = s.updated_neighbours]

restart(s) ==
    [FreshState EXCEPT !.newly_revealed_tiles = s.newly_revealed_tiles,
                       !.newly_flagged_tiles = s.newly_flagged_tiles,
                       !.newly_unflagged_tiles = s.newly_unflagged_tiles,
                       !.updated_neighbours = s.updated_neighbours]

----------------------------------------------------------------------------
\* Action API (MinesweeperAPI).  Each operation maps the state and its
\* arguments to the new state and the returned dictionary.

\* A feedback that leaves the revealed tiles out.
affected_tiles_unreported(s) ==
    [revealed |-> {}, neighbours_updated |-> s.updated_neighbours]

affected_tiles(s) ==
    [revealed |-> s.newly_revealed_tiles, neighbours_updated |-> s.updated_neighbours]

\* A guard that lets calls through after the game has ended.
is_active_always(s) == TRUE

\* The guard every mutating call starts with.
is_active(s) == s.game_status = "playing"

\* Checks that miss the already-revealed test.
reveal_rejection_flag_only(s, tile) ==
    IF s.is_flagged[tile] THEN "flagged" ELSE "none"

\* reveal_tile's checks on the target tile, made after mine placement.
reveal_rejection(s, tile) ==
    IF ~s.is_hidden[tile] THEN "already_revealed"
    ELSE IF s.is_flagged[tile] THEN "flagged"
    ELSE "none"

\* bomb_tiles is the outcome of the shuffle, used only by a first click.
reveal_tile(s, row, col, bomb_tiles) ==
    LET s0 == [s EXCEPT !.newly_revealed_tiles = {}, !.updated_neighbours = {}]
        tile == <<row, col>>
    IN IF ~_is_valid_position(row, col)
       THEN [s |-> s0, ret |-> [result |-> "invalid_position", game_status |-> s0.game_status]]
       ELSE IF ~is_active(s0)
       THEN [s |-> s0, ret |-> [result |-> "game_not_active", game_status |-> s0.game_status]]
       ELSE LET s1 == IF ~s0.bombs_placed
                      THEN [place_bombs_after_first_click(s0, bomb_tiles)
                               EXCEPT !.bombs_placed = TRUE]
                      ELSE s0
            IN IF reveal_rejection(s1, tile) = "already_revealed"
               THEN [s |-> s1, ret |-> [result |-> "already_revealed",
                                        tile_value |-> s1.value[tile],
                                        game_status |-> s1.game_status]]
               ELSE IF reveal_rejection(s1, tile) = "flagged"
               THEN [s |-> s1, ret |-> [result |-> "flagged", game_status |-> s1.game_status]]
               ELSE LET before_count == s1.revealed_count
                        r == reveal(s1, tile)
                        newly_revealed_count == r.s.revealed_count - before_count
                    IN IF r.bomb_revealed
                       THEN LET s2 == lost(r.s)
                            IN [s |-> s2, ret |-> [result |-> "bomb",
                                                   game_status |-> "lost",
                                                   bomb_position |-> tile,
                                                   affected_tiles |-> affected_tiles(s2)]]
                       ELSE IF r.s.revealed_count = non_bomb_tiles_count
                       THEN LET s2 == won(r.s)
                            IN [s |-> s2, ret |-> [result |-> "win",
                                                   tile_value |-> s2.value[tile],
                                                   newly_revealed_count |-> newly_revealed_count,
                                                   affected_tiles |-> affected_tiles(s2),
                                                   game_status |-> "won"]]
                       ELSE [s |-> r.s, ret |-> [result |-> "revealed",
                                                 tile_value |-> r.s.value[tile],
                                                 newly_revealed_count |-> newly_revealed_count,
                                                 affected_tiles |-> affected_tiles(r.s),
                                                 game_status |-> r.s.game_status]]

\* chord_tile's checks on the target tile.
chord_rejection(s, tile) ==
    IF s.is_hidden[tile] \/ ~is_numbered(s, tile) THEN "not_chordable"
    ELSE IF ~is_satisfied(s, tile) THEN "not_satisfied"
    ELSE "none"

chord_tile(s, row, col) ==
    LET s0 == [s EXCEPT !.newly_revealed_tiles = {}, !.updated_neighbours = {}]
        tile == <<row, col>>
    IN IF ~_is_valid_position(row, col)
       THEN [s |-> s0, ret |-> [result |-> "invalid_position", game_status |-> s0.game_status]]
       ELSE IF ~is_active(s0)
       THEN [s |-> s0, ret |-> [result |-> "game_not_active", game_status |-> s0.game_status]]
       ELSE IF chord_rejection(s0, tile) # "none"
       THEN [s |-> s0, ret |-> [result |-> chord_rejection(s0, tile),
                                game_status |-> s0.game_status]]
       ELSE LET to_reveal_test(n) == ~s0.is_flagged[n] /\ s0.is_hidden[n]
                to_reveal == SelectSeq(neighbours(tile), to_reveal_test)
                before_count == s0.revealed_count
                r == reveal_batch(s0, to_reveal)
                newly_revealed_count == r.s.revealed_count - before_count
            IN IF r.bomb_revealed
               THEN LET s2 == lost(r.s)
                    IN [s |-> s2, ret |-> [result |-> "bomb",
                                           game_status |-> "lost",
                                           bomb_position |-> r.bomb_position,
                                           affected_tiles |-> affected_tiles(s2)]]
               ELSE IF r.s.revealed_count = non_bomb_tiles_count
               THEN LET s2 == won(r.s)
                    IN [s |-> s2, ret |-> [result |-> "win",
                                           newly_revealed_count |-> newly_revealed_count,
                                           affected_tiles |-> affected_tiles(s2),
                                           game_status |-> "won"]]
               ELSE [s |-> r.s, ret |-> [result |-> "chorded",
                                         newly_revealed_count |-> newly_revealed_count,
                                         affected_tiles |-> affected_tiles(r.s),
                                         game_status |-> r.s.game_status]]

\* A flag_tile that toggles the flag and leaves the counter alone.
flag_tile_uncounted(s, row, col) ==
    LET s0 == [s EXCEPT !.newly_flagged_tiles = {}, !.newly_unflagged_tiles = {},
                        !.updated_neighbours = {}]
        tile == <<row, col>>
    IN IF ~_is_valid_position(row, col)
       THEN [s |-> s0, ret |-> [result |-> "invalid_position", game_status |-> s0.game_status]]
       ELSE IF ~is_active(s0)
       THEN [s |-> s0, ret |-> [result |-> "game_not_active", game_status |-> s0.game_status]]
       ELSE IF ~s0.is_hidden[tile]
       THEN [s |-> s0, ret |-> [result |-> "already_revealed", game_status |-> s0.game_status]]
       ELSE LET was_flagged == s0.is_flagged[tile]
                s1 == flag(s0, tile)
            IN [s |-> s1,
                ret |-> [result |-> IF was_flagged /\ ~s1.is_flagged[tile]
                                    THEN "unflagged" ELSE "flagged",
                         flagged_count |-> s1.flagged_count,
                         remaining_bombs |-> N_BOMBS - s1.flagged_count,
                         affected_tiles |-> [flagged |-> s1.newly_flagged_tiles,
                                             unflagged |-> s1.newly_unflagged_tiles,
                                             neighbours_updated |-> s1.updated_neighbours],
                         game_status |-> s1.game_status]]

flag_tile(s, row, col) ==
    LET s0 == [s EXCEPT !.newly_flagged_tiles = {}, !.newly_unflagged_tiles = {},
                        !.updated_neighbours = {}]
        tile == <<row, col>>
    IN IF ~_is_valid_position(row, col)
       THEN [s |-> s0, ret |-> [result |-> "invalid_position", game_status |-> s0.game_status]]
       ELSE IF ~is_active(s0)
       THEN [s |-> s0, ret |-> [result |-> "game_not_active", game_status |-> s0.game_status]]
       ELSE IF ~s0.is_hidden[tile]
       THEN [s |-> s0, ret |-> [result |-> "already_revealed", game_status |-> s0.game_status]]
       ELSE LET was_flagged == s0.is_flagged[tile]
                s1 == flag(s0, tile)
                s2 == IF was_flagged /\ ~s1.is_flagged[tile]
                      THEN [s1 EXCEPT !.flagged_count = @ - 1]
                      ELSE [s1 EXCEPT !.flagged_count = @ + 1]
            IN [s |-> s2,
                ret |-> [result |-> IF was_flagged /\ ~s1.is_flagged[tile]
                                    THEN "unflagged" ELSE "flagged",
                         flagged_count |-> s2.flagged_count,
                         remaining_bombs |-> N_BOMBS - s2.flagged_count,
                         affected_tiles |-> [flagged |-> s2.newly_flagged_tiles,
                                             unflagged |-> s2.newly_unflagged_tiles,
                                             neighbours_updated |-> s2.updated_neighbours],
                         game_status |-> s2.game_status]]

\* A restart_game that keeps its reference to the grid of the game before.
restart_game_keeps_grid(s) ==
    LET s0 == [s EXCEPT !.newly_revealed_tiles = {}, !.newly_flagged_tiles = {},
                        !.newly_unflagged_tiles = {}, !.updated_neighbours = {}]
    IN [s |-> restart(s0), ret |-> [result |-> "restarted", game_status |-> "playing"]]

restart_game(s) ==
    LET s0 == [s EXCEPT !.newly_revealed_tiles = {}, !.newly_flagged_tiles = {},
                        !.newly_unflagged_tiles = {}, !.updated_neighbours = {}]
    IN [s |-> [restart(s0) EXCEPT !.grid_is_game_grid = TRUE],
        ret |-> [result |-> "restarted", game_status |-> "playing"]]

----------------------------------------------------------------------------
\* The state machine: any caller making any Action API call.  The call
\* variable records the call and its arguments, and for restart_game the
\* status it was made in.

\* Call arguments: every tile, one position above the grid and one to its right.
Positions == Tiles \cup {<<-1, 0>>, <<0, COLS>>}

Setup ==
    /\ is_hidden = FreshState.is_hidden
    /\ is_flagged = FreshState.is_flagged
    /\ is_bomb = FreshState.is_bomb
    /\ value = FreshState.value
    /\ hidden_neighbours = FreshState.hidden_neighbours
    /\ flagged_neighbours = FreshState.flagged_neighbours
    /\ game_status = FreshState.game_status
    /\ revealed_count = FreshState.revealed_count
    /\ flagged_count = FreshState.flagged_count
    /\ bombs_placed = FreshState.bombs_placed
    /\ newly_revealed_tiles = {}
    /\ newly_flagged_tiles = {}
    /\ newly_unflagged_tiles = {}
    /\ updated_neighbours = {}
    /\ grid_is_game_grid = TRUE
    /\ call = [op |-> "setup"]
    /\ ret = [result |-> "none", game_status |-> "playing"]
    /\ calls = 0

\* No solver is attached: the calls come from the user interface.
NoSolver ==
    /\ solver_pc = "none"
    /\ active_tiles = <<>>
    /\ popped = <<>>
    /\ pending = {}
    /\ tiles_to_update = {}
    /\ fed_back = {}

\* The program started on a desktop.
Init == IS_MOBILE = FALSE /\ Setup /\ NoSolver

\* The shuffles a reveal_tile call at p can draw: one per placement when the
\* call places the mines, a single unused one otherwise.
Shuffles(p) ==
    IF IsTile(p) /\ game_status = "playing" /\ ~bombs_placed
    THEN place_bombs(placeable_tiles(p))
    ELSE {{}}

Returned(op, p, r) ==
    /\ Assign(r.s)
    /\ ret' = r.ret
    /\ call' = [op |-> op, row |-> p[1], col |-> p[2]]
    /\ calls' = calls + 1
    /\ UNCHANGED IS_MOBILE

RevealTile ==
    /\ calls < MaxCalls
    /\ \E p \in Positions : \E bomb_tiles \in Shuffles(p) :
       \E r \in {reveal_tile(State, p[1], p[2], bomb_tiles)} :
          Returned("reveal_tile", p, r)
    /\ UNCHANGED solver

ChordTile ==
    /\ calls < MaxCalls
    /\ \E p \in Positions : \E r \in {chord_tile(State, p[1], p[2])} :
          Returned("chord_tile", p, r)
    /\ UNCHANGED solver

FlagTile ==
    /\ calls < MaxCalls
    /\ \E p \in Positions : \E r \in {flag_tile(State, p[1], p[2])} :
          Returned("flag_tile", p, r)
    /\ UNCHANGED solver

RestartGame ==
    /\ \E r \in {restart_game(State)} : Assign(r.s) /\ ret' = r.ret
    /\ call' = [op |-> "restart_game", status |-> game_status]
    /\ calls' = 0
    /\ UNCHANGED <<IS_MOBILE, solver>>

Next == RevealTile \/ ChordTile \/ FlagTile \/ RestartGame

Spec == Init /\ [][Next]_vars

----------------------------------------------------------------------------
\* Vocabulary of the properties

Revealed == {t \in Tiles : ~is_hidden[t]}

Bombs == {t \in Tiles : is_bomb[t]}

RevealedSafe == {t \in Tiles : ~is_hidden[t] /\ ~is_bomb[t]}

\* The step is a call of op (the call variable names the call that led to a state).
Called(op) == call'.op = op

CalledAt(op, t) == call'.op = op /\ call'.row = t[1] /\ call'.col = t[2]

BoardCall == Called("reveal_tile") \/ Called("chord_tile") \/ Called("flag_tile")

\* The rejection outcomes of each operation ("flagged" rejects a reveal, but
\* is a success of flag_tile).
Rejections(op) ==
    CASE op = "reveal_tile" -> {"invalid_position", "game_not_active", "already_revealed", "flagged"}
      [] op = "chord_tile" -> {"invalid_position", "game_not_active", "not_chordable", "not_satisfied"}
      [] op = "flag_tile" -> {"invalid_position", "game_not_active", "already_revealed"}
      [] OTHER -> {}

\* t is the tile at (row, col) or touches it, by coordinates.
Around(t, row, col) == t[1] - row \in -1 .. 1 /\ t[2] - col \in -1 .. 1

\* Tiles the step turns from hidden to revealed.
NewlyRevealed == {t \in Tiles : is_hidden[t] /\ ~is_hidden'[t]}

----------------------------------------------------------------------------
\* Two more callers, both on the mobile board and both making only calls the
\* API accepts: a player who opens a tile first and then opens, chords and
\* marks, and a marker who marks tiles before the first click and then opens
\* and chords.

\* Calls per game of the player.
MaxPlayerCalls == 4

\* Calls per game of the marker, and how many of them may be marks.
MaxMarkerCalls == 4
MaxMarks == 2

\* The program started on a phone.
MobileInit == IS_MOBILE = TRUE /\ Setup /\ NoSolver

Accepted(op, r) == r.ret.result \notin Rejections(op)

PlayerReveal ==
    /\ calls < MaxPlayerCalls
    /\ \E p \in Tiles : \E bomb_tiles \in Shuffles(p) :
       \E r \in {reveal_tile(State, p[1], p[2], bomb_tiles)} :
          Accepted("reveal_tile", r) /\ Returned("reveal_tile", p, r)
    /\ UNCHANGED solver

PlayerChord ==
    /\ calls < MaxPlayerCalls
    /\ \E p \in Tiles : \E r \in {chord_tile(State, p[1], p[2])} :
          Accepted("chord_tile", r) /\ Returned("chord_tile", p, r)
    /\ UNCHANGED solver

PlayerFlag ==
    /\ bombs_placed
    /\ calls < MaxPlayerCalls
    /\ \E p \in Tiles : \E r \in {flag_tile(State, p[1], p[2])} :
          Accepted("flag_tile", r) /\ Returned("flag_tile", p, r)
    /\ UNCHANGED solver

PlayerNext == PlayerReveal \/ PlayerChord \/ PlayerFlag

PlayerSpec == MobileInit /\ [][PlayerNext]_vars

MarkerFlag ==
    /\ ~bombs_placed
    /\ calls < MaxMarks
    /\ \E p \in Tiles : \E r \in {flag_tile(State, p[1], p[2])} :
          Accepted("flag_tile", r) /\ Returned("flag_tile", p, r)
    /\ UNCHANGED solver

MarkerReveal ==
    /\ calls < MaxMarkerCalls
    /\ \E p \in Tiles : \E bomb_tiles \in Shuffles(p) :
       \E r \in {reveal_tile(State, p[1], p[2], bomb_tiles)} :
          Accepted("reveal_tile", r) /\ Returned("reveal_tile", p, r)
    /\ UNCHANGED solver

MarkerChord ==
    /\ calls < MaxMarkerCalls
    /\ \E p \in Tiles : \E r \in {chord_tile(State, p[1], p[2])} :
          Accepted("chord_tile", r) /\ Returned("chord_tile", p, r)
    /\ UNCHANGED solver

MarkerNext == MarkerFlag \/ MarkerReveal \/ MarkerChord

MarkerSpec == MobileInit /\ [][MarkerNext]_vars

----------------------------------------------------------------------------
\* The solver (minesweeper/ai/solver.py, MinesweeperSolver.start), one action
\* for each Action API call it makes and for each step between two calls.
\* process_events and wait_for_exit only read user input: wait_for_exit is
\* taken to return.

\* priority_level: 0 satisfied, 1 satisfiable, 2 neither.
priority_level(s, t) ==
    IF is_satisfied(s, t) THEN 0
    ELSE IF is_satisfiable(s, t) THEN 1
    ELSE 2

\* An update that enters the new tiles and keeps the priority of those
\* active_tiles already holds.
update_active_tiles_keeps_priority(s, active, tiles) ==
    LET numbered == {t \in tiles : is_numbered(s, t)}
    IN [t \in DOMAIN active \cup numbered |->
           IF t \in DOMAIN active THEN active[t] ELSE priority_level(s, t)]

\* update_active_tiles: the numbered tiles among `tiles` enter active_tiles, or
\* get their priority replaced, with their priority in state s.
update_active_tiles(s, active, tiles) ==
    LET numbered == {t \in tiles : is_numbered(s, t)}
    IN [t \in DOMAIN active \cup numbered |->
           IF t \in numbered THEN priority_level(s, t) ELSE active[t]]

\* The tiles the re-draw loop of open_random_tiles can stop at: it draws again
\* only while the tile drawn is revealed and not flagged.
random_tiles(s) == {t \in Tiles : ~(~s.is_hidden[t] /\ ~s.is_flagged[t])}

\* The set built from a reveal or chord result: empty when the result carries
\* no affected_tiles.
updated_by(feedback) ==
    IF "affected_tiles" \in DOMAIN feedback
    THEN feedback.affected_tiles.revealed \cup feedback.affected_tiles.neighbours_updated
    ELSE {}

\* The tiles a feedback names in the revealed and neighbours_updated sets of
\* its affected_tiles (a flag_tile feedback has no revealed set).
affected_by(feedback) ==
    IF "affected_tiles" \in DOMAIN feedback
    THEN (IF "revealed" \in DOMAIN feedback.affected_tiles
          THEN feedback.affected_tiles.revealed ELSE {})
         \cup feedback.affected_tiles.neighbours_updated
    ELSE {}

\* The value open_random_tiles returns.
open_random_tiles_result(feedback) ==
    IF feedback.game_status # "playing" THEN {} ELSE updated_by(feedback)

\* The items popitem can return: those of the lowest priority.
pop_active_tile ==
    {<<t, active_tiles[t]>> : t \in {x \in DOMAIN active_tiles :
        \A y \in DOMAIN active_tiles : active_tiles[x] <= active_tiles[y]}}

\* A solver is attached to a freshly set up game, on either platform.
SolverInit ==
    /\ IS_MOBILE \in BOOLEAN
    /\ Setup
    /\ solver_pc = "start"
    /\ active_tiles = <<>>
    /\ popped = <<>>
    /\ pending = {}
    /\ tiles_to_update = {}
    /\ fed_back = {}

\* A step of the solver that makes no Action API call.
SolverStep(name) ==
    /\ call' = [op |-> name]
    /\ UNCHANGED <<IS_MOBILE, board, session, tracking, grid_is_game_grid, ret, calls>>

\* start(), before the loop: the first random reveal.
SolverStart ==
    /\ solver_pc = "start"
    /\ \E p \in random_tiles(State) : \E bomb_tiles \in Shuffles(p) :
       \E r \in {reveal_tile(State, p[1], p[2], bomb_tiles)} :
          /\ Returned("reveal_tile", p, r)
          /\ active_tiles' = update_active_tiles(r.s, active_tiles,
                                                 open_random_tiles_result(r.ret))
          /\ fed_back' = fed_back \cup affected_by(r.ret)
    /\ solver_pc' = "loop"
    /\ UNCHANGED <<popped, pending, tiles_to_update>>

\* The loop test and the pop.
PopActiveTile ==
    /\ solver_pc = "loop"
    /\ DOMAIN active_tiles # {}
    /\ \E item \in pop_active_tile :
          /\ popped' = item
          /\ active_tiles' = [t \in DOMAIN active_tiles \ {item[1]} |-> active_tiles[t]]
          /\ solver_pc' = IF item[2] = 2 THEN "open_random_tiles" ELSE "act"
    /\ fed_back' = {}
    /\ SolverStep("pop_active_tile")
    /\ UNCHANGED <<pending, tiles_to_update>>

\* The loop ends when active_tiles is empty.
LoopExit ==
    /\ solver_pc = "loop"
    /\ DOMAIN active_tiles = {}
    /\ solver_pc' = "done"
    /\ SolverStep("exit")
    /\ UNCHANGED <<active_tiles, popped, pending, tiles_to_update, fed_back>>

\* The guess made when the popped priority is 2.
OpenRandomTiles ==
    /\ solver_pc = "open_random_tiles"
    /\ \E p \in random_tiles(State) : \E bomb_tiles \in Shuffles(p) :
       \E r \in {reveal_tile(State, p[1], p[2], bomb_tiles)} :
          /\ Returned("reveal_tile", p, r)
          /\ active_tiles' = update_active_tiles(r.s, active_tiles,
                                                 open_random_tiles_result(r.ret))
          /\ fed_back' = fed_back \cup affected_by(r.ret)
    /\ solver_pc' = "act"
    /\ UNCHANGED <<popped, pending, tiles_to_update>>

\* The popped tile is satisfied: chord it; start() returns when the game is over.
ChordSatisfied ==
    /\ solver_pc = "act"
    /\ is_satisfied(State, popped[1])
    /\ \E r \in {chord_tile(State, popped[1][1], popped[1][2])} :
          /\ Returned("chord_tile", popped[1], r)
          /\ IF r.ret.game_status # "playing"
             THEN solver_pc' = "done" /\ UNCHANGED active_tiles
             ELSE /\ solver_pc' = "loop"
                  /\ active_tiles' = update_active_tiles(r.s, active_tiles, updated_by(r.ret))
          /\ fed_back' = fed_back \cup affected_by(r.ret)
    /\ UNCHANGED <<popped, pending, tiles_to_update>>

\* try_satisfy_tile on a tile that is not satisfied: when it is satisfiable,
\* satisfy_tile starts on a copy of its hidden_neighbours; otherwise the
\* iteration ends with nothing to update.
TrySatisfyTile ==
    /\ solver_pc = "act"
    /\ ~is_satisfied(State, popped[1])
    /\ IF is_satisfiable(State, popped[1])
       THEN /\ solver_pc' = "satisfy_tile"
            /\ pending' = hidden_neighbours[popped[1]]
       ELSE /\ solver_pc' = "loop"
            /\ UNCHANGED pending
    /\ tiles_to_update' = {}
    /\ SolverStep("try_satisfy_tile")
    /\ UNCHANGED <<active_tiles, popped, fed_back>>

\* satisfy_tile: flag the next neighbour of the copy that is not flagged (the
\* iteration order of a set is not fixed).
FlagNeighbour ==
    /\ solver_pc = "satisfy_tile"
    /\ \E n \in pending :
          /\ ~is_flagged[n]
          /\ \E r \in {flag_tile(State, n[1], n[2])} :
                /\ Returned("flag_tile", n, r)
                /\ tiles_to_update' =
                      IF "affected_tiles" \in DOMAIN r.ret
                      THEN tiles_to_update \cup r.ret.affected_tiles.neighbours_updated
                      ELSE tiles_to_update
                /\ fed_back' = fed_back \cup affected_by(r.ret)
          /\ pending' = pending \ {n}
    /\ UNCHANGED <<solver_pc, active_tiles, popped>>

\* A try_satisfy_tile that chords without waiting for satisfy_tile to have
\* flagged every neighbour.
ChordSatisfiable_unflagged ==
    /\ solver_pc = "satisfy_tile"
    /\ \E r \in {chord_tile(State, popped[1][1], popped[1][2])} :
          /\ Returned("chord_tile", popped[1], r)
          /\ active_tiles' = update_active_tiles(r.s, active_tiles, tiles_to_update)
          /\ fed_back' = fed_back \cup affected_by(r.ret)
    /\ solver_pc' = "loop"
    /\ pending' = {}
    /\ UNCHANGED <<popped, tiles_to_update>>

\* try_satisfy_tile after satisfy_tile: chord the tile.  The union with the
\* chord's affected tiles is computed and dropped, so in either case what
\* reaches update_active_tiles is the set satisfy_tile returned.
ChordSatisfiable ==
    /\ solver_pc = "satisfy_tile"
    /\ \A n \in pending : is_flagged[n]
    /\ \E r \in {chord_tile(State, popped[1][1], popped[1][2])} :
          /\ Returned("chord_tile", popped[1], r)
          /\ active_tiles' = update_active_tiles(r.s, active_tiles, tiles_to_update)
          /\ fed_back' = fed_back \cup affected_by(r.ret)
    /\ solver_pc' = "loop"
    /\ pending' = {}
    /\ UNCHANGED <<popped, tiles_to_update>>

SolverNext ==
    \/ SolverStart
    \/ PopActiveTile
    \/ LoopExit
    \/ OpenRandomTiles
    \/ ChordSatisfied
    \/ TrySatisfyTile
    \/ FlagNeighbour
    \/ ChordSatisfiable

SolverSpec == SolverInit /\ [][SolverNext]_vars

----------------------------------------------------------------------------
\* C1: in every reachable state, every flagged tile is hidden.
C1_FlaggedImpliesHidden == \A t \in Tiles : is_flagged[t] => is_hidden[t]

\* C2: after every operation, for every tile c with a non-zero value, the size
\* of c's flagged_neighbours equals the number of c's non-zero-valued
\* neighbours that are flagged.
C2_FlaggedNeighbourCount ==
    \A c \in Tiles :
        value[c] # 0 =>
            Cardinality(flagged_neighbours[c])
                = Cardinality({n \in Nbrs(c) : value[n] # 0 /\ is_flagged[n]})

C4_WonIffAllSafeRevealed ==
    (Cardinality(RevealedSafe) = non_bomb_tiles_count) <=> (game_status = "won")

\* C5: a reveal_tile or chord_tile call that turns a bomb from hidden to
\* revealed ends with status lost and returns bomb with game_status lost; a
\* call that reveals no bomb does not set the status to lost.
C5_BombRevealedIffLost ==
    [][(Called("reveal_tile") \/ Called("chord_tile")) =>
          /\ (\E t \in NewlyRevealed : is_bomb'[t]) =>
                /\ game_status' = "lost"
                /\ ret'.result = "bomb"
                /\ ret'.game_status = "lost"
          /\ (game_status # "lost" /\ ~\E t \in NewlyRevealed : is_bomb'[t]) =>
                game_status' # "lost"]_vars

\* C5 witness: a chord has revealed a bomb and returned bomb.
C5_Witness ==
    /\ call.op = "chord_tile"
    /\ ret.result = "bomb"
    /\ game_status = "lost"
    /\ \E t \in Bombs : ~is_hidden[t]

\* C6: once the status is won or lost, every reveal_tile, chord_tile and
\* flag_tile call at a valid position returns game_not_active and changes no
\* tile's hidden or flagged state, no neighbour set, and none of
\* revealed_count, flagged_count and status; the status changes only by
\* restart_game.
C6_TerminalUntilRestart ==
    [][(game_status = "won" \/ game_status = "lost") =>
          /\ ~Called("restart_game") => game_status' = game_status
          /\ (BoardCall /\ IsTile(<<call'.row, call'.col>>)) =>
                /\ ret'.result = "game_not_active"
                /\ (UNCHANGED <<is_hidden, is_flagged, hidden_neighbours, flagged_neighbours,
                                revealed_count, flagged_count, game_status>>)]_vars

\* C6 witness: a call at a valid position was made after the game ended.
C6_Witness ==
    /\ game_status \in {"won", "lost"}
    /\ call.op \in {"reveal_tile", "chord_tile", "flag_tile"}
    /\ IsTile(<<call.row, call.col>>)
    /\ ret.result = "game_not_active"

\* C7: a call that returns a rejection outcome leaves the board and the
\* session unchanged, bombs_placed, is_bomb and value included.
C7_RejectionChangesNothing ==
    [][(BoardCall /\ ret'.result \in Rejections(call'.op)) =>
          (UNCHANGED <<board, session>>)]_vars

\* C8: with 0 < bomb_count < rows*cols - 8, the step that places the mines is
\* a reveal_tile call at a valid position after which exactly bomb_count tiles
\* are bombs, none of them the target or one of its neighbours; once placed,
\* the mines stay where they are until restart.
C8_PlacementSafeAndOnce ==
    [][(0 < N_BOMBS /\ N_BOMBS < ROWS * COLS - 8) =>
          /\ (~bombs_placed /\ bombs_placed') =>
                /\ Called("reveal_tile")
                /\ IsTile(<<call'.row, call'.col>>)
                /\ Cardinality({t \in Tiles : is_bomb'[t]}) = N_BOMBS
                /\ \A t \in Tiles : Around(t, call'.row, call'.col) => ~is_bomb'[t]
          /\ (~bombs_placed /\ ~bombs_placed') => \A t \in Tiles : ~is_bomb'[t]
          /\ (bombs_placed /\ ~Called("restart_game")) =>
                bombs_placed' /\ is_bomb' = is_bomb]_vars

\* C8 witness: the first reveal_tile call of a game has placed the mines.
C8_Witness ==
    /\ bombs_placed
    /\ call.op = "reveal_tile"
    /\ ret.result = "revealed"
    /\ Cardinality(Bombs) = N_BOMBS
    /\ \A t \in Tiles : Around(t, call.row, call.col) => ~is_bomb[t]

C10_RevealRevealedIsNoOp ==
    [][(\A t \in Tiles :
          (CalledAt("reveal_tile", t) /\ game_status = "playing" /\ ~is_hidden[t]) =>
              /\ ret'.result = "already_revealed"
              /\ UNCHANGED <<board, session>>)]_vars

\* C10 witness: a revealed tile was revealed again during play.
C10_Witness ==
    /\ call.op = "reveal_tile"
    /\ ret.result = "already_revealed"
    /\ game_status = "playing"
    /\ ~is_hidden[<<call.row, call.col>>]

\* C11: no reveal_tile or chord_tile call turns a flagged tile from hidden to
\* revealed: a tile that is hidden and flagged when the call starts is still
\* hidden when it returns.
C11_FlaggedStaysHidden ==
    [][(Called("reveal_tile") \/ Called("chord_tile")) =>
          (\A t \in Tiles : (is_flagged[t] /\ is_hidden[t]) => is_hidden'[t])]_vars

\* C12: a chord_tile call during play at a tile c reveals tiles only when c is
\* revealed and numbered and the number of c's neighbours that are flagged
\* when the call starts equals c's value; in every other case it returns
\* not_chordable or not_satisfied and reveals nothing.
C12_ChordOnlyWhenFlagsMatch ==
    [][(\A c \in Tiles :
          (CalledAt("chord_tile", c) /\ game_status = "playing") =>
              LET flagged_now == {n \in Nbrs(c) : is_flagged[n]}
                  chordable == /\ ~is_hidden[c]
                               /\ value[c] >= 1
                               /\ Cardinality(flagged_now) = value[c]
              IN /\ NewlyRevealed # {} => chordable
                 /\ ~chordable => /\ ret'.result \in {"not_chordable", "not_satisfied"}
                                  /\ NewlyRevealed = {})]_vars

\* The hidden, unflagged neighbours of c: the tiles a chord on c starts from.
ChordBatch(c) == {n \in Nbrs(c) : is_hidden[n] /\ ~is_flagged[n]}

\* K and every tile the cascade reaches from it: the hidden, unflagged
\* neighbours of the zero-valued tiles already reached.
RECURSIVE CascadeFrom(_)
CascadeFrom(K) ==
    LET more == {n \in Tiles : /\ is_hidden[n] /\ ~is_flagged[n]
                               /\ \E z \in K : value[z] = 0 /\ n \in Nbrs(z)}
    IN IF more \subseteq K THEN K ELSE CascadeFrom(K \cup more)

\* The chord_tile step at c passed the checks (returned chorded, win or bomb).
Chorded(c) == CalledAt("chord_tile", c) /\ ret'.result \in {"chorded", "win", "bomb"}

\* What C13 says of a chord whose batch holds no zero-valued tile and no bomb:
\* exactly the batch is revealed and no flag changes.
PlainChordExact(c) ==
    (\A n \in ChordBatch(c) : value[n] # 0 /\ ~is_bomb[n]) =>
        /\ NewlyRevealed = ChordBatch(c)
        /\ \A t \in Tiles \ ChordBatch(c) : is_hidden'[t] = is_hidden[t]
        /\ is_flagged' = is_flagged

\* C13 as stated: a chord on c that passes the checks reveals every hidden,
\* unflagged neighbour of c, and besides them only tiles the cascade reaches
\* from zero-valued tiles among them; when none of those neighbours is
\* zero-valued or a bomb, exactly they turn from hidden to revealed and no
\* other tile changes its hidden or flagged state.
C13_ChordRevealsBatchAndCascadeOnly ==
    [][(\A c \in Tiles :
          Chorded(c) =>
              /\ ChordBatch(c) \subseteq NewlyRevealed
              /\ NewlyRevealed \subseteq CascadeFrom(ChordBatch(c))
              /\ PlainChordExact(c))]_vars

\* C13 amended: the same, except that a chord returning bomb also reveals the
\* mines outside the batch and its cascade (the loss transition reveals every
\* mine).
C13_ChordRevealsBatchCascadeAndMines ==
    [][(\A c \in Tiles :
          Chorded(c) =>
              /\ ChordBatch(c) \subseteq NewlyRevealed
              /\ NewlyRevealed \subseteq
                    CascadeFrom(ChordBatch(c))
                        \cup (IF ret'.result = "bomb" THEN Bombs ELSE {})
              /\ PlainChordExact(c))]_vars

\* C13 witness: a chord returned bomb, and a mine that is not a neighbour of
\* its target stands revealed.
C13_Witness ==
    /\ call.op = "chord_tile"
    /\ ret.result = "bomb"
    /\ \E b \in Bombs : ~is_hidden[b] /\ ~Around(b, call.row, call.col)

\* The bombs of the batch of a chord on c, in the order the batch is processed
\* (the order of c's neighbour list; the cascade never adds a bomb).
BatchBombs(c) ==
    LET in_batch_bomb(n) == is_hidden[n] /\ ~is_flagged[n] /\ is_bomb[n]
    IN SelectSeq(neighbours(c), in_batch_bomb)

\* C14: when the batch of a chord holds a bomb, the chord still reveals every
\* tile of the batch, and the bomb_position it returns is the position of the
\* first bomb of the batch in processing order.
C14_FirstBombReported ==
    [][(\A c \in Tiles :
          (CalledAt("chord_tile", c) /\ ret'.result = "bomb") =>
              /\ ChordBatch(c) \subseteq NewlyRevealed
              /\ BatchBombs(c) # <<>>
              /\ ret'.bomb_position = Head(BatchBombs(c)))]_vars

\* C15: restart_game is accepted in every status, and after it the status is
\* playing, flagged_count and revealed_count are 0, bombs_placed is false,
\* every tile is hidden, unflagged and not a bomb, and the API refers to the
\* grid of the new game.
C15_RestartGivesFreshGame ==
    [][Called("restart_game") =>
          /\ ret'.result = "restarted"
          /\ ret'.game_status = "playing"
          /\ game_status' = "playing"
          /\ flagged_count' = 0
          /\ revealed_count' = 0
          /\ ~bombs_placed'
          /\ \A t \in Tiles : is_hidden'[t] /\ ~is_flagged'[t] /\ ~is_bomb'[t]
          /\ grid_is_game_grid']_vars

\* C15 witness: a lost game has been restarted and the board is fresh.
C15_Witness ==
    /\ call.op = "restart_game"
    /\ call.status = "lost"
    /\ game_status = "playing"
    /\ \A t \in Tiles : is_hidden[t] /\ ~is_bomb[t]

\* The step is a reveal_tile or chord_tile call that returned a mutating outcome.
RevealOutcome ==
    /\ Called("reveal_tile") \/ Called("chord_tile")
    /\ ret'.result \in {"revealed", "chorded", "win", "bomb"}

\* C16: for every reveal_tile or chord_tile call returning revealed, chorded,
\* win or bomb, affected_tiles.revealed is exactly the set of non-bomb tiles
\* the call turned from hidden to revealed, and newly_revealed_count, when the
\* result has it, equals the size of that set and the increase of
\* revealed_count.
C16_RevealedSetExact ==
    [][RevealOutcome =>
          /\ ret'.affected_tiles.revealed = {t \in NewlyRevealed : ~is_bomb'[t]}
          /\ "newly_revealed_count" \in DOMAIN ret' =>
                /\ ret'.newly_revealed_count = Cardinality(ret'.affected_tiles.revealed)
                /\ ret'.newly_revealed_count = revealed_count' - revealed_count]_vars

\* C16 witness: a chord returned chorded and reported the tiles it revealed.
C16_Witness ==
    /\ call.op = "chord_tile"
    /\ ret.result = "chorded"
    /\ ret.newly_revealed_count >= 1
    /\ ret.affected_tiles.revealed # {}

\* Tiles whose hidden_neighbours or flagged_neighbours set the step changes.
NeighbourSetsChanged ==
    {t \in Tiles : \/ hidden_neighbours'[t] # hidden_neighbours[t]
                   \/ flagged_neighbours'[t] # flagged_neighbours[t]}

\* C17: for every mutating outcome of reveal_tile and chord_tile, win and
\* bomb included, affected_tiles.neighbours_updated is exactly the set of
\* tiles whose hidden_neighbours or flagged_neighbours set the call changed.
C17_NeighboursUpdatedExact ==
    [][RevealOutcome =>
          ret'.affected_tiles.neighbours_updated = NeighbourSetsChanged]_vars

\* C18: during play, flagging a hidden tile and then unflagging it with a
\* second flag_tile call restores the state before the two calls: every
\* tile's flagged state, flagged_count, and every tile's flagged_neighbours
\* and hidden_neighbours sets.  Stated on the step that flags: the flag_tile
\* call that follows it at the same tile leads back.
C18_FlagUnflagRestores ==
    [][(\A t \in Tiles :
          (CalledAt("flag_tile", t) /\ ret'.result = "flagged") =>
              LET unflag == flag_tile(State', t[1], t[2])
              IN /\ unflag.ret.result = "unflagged"
                 /\ unflag.s.is_flagged = is_flagged
                 /\ unflag.s.flagged_count = flagged_count
                 /\ unflag.s.flagged_neighbours = flagged_neighbours
                 /\ unflag.s.hidden_neighbours = hidden_neighbours)]_vars

\* The solver run is over: start() has left its loop, or the game is won or lost.
SolverTerminated == solver_pc = "done" \/ game_status # "playing"

\* C19: on a board with 0 < bomb_count < rows*cols - 8 a solver run has made at
\* most rows*cols Action API calls for as long as it has not terminated
\* (active_tiles empty or the status won or lost).
C19_TerminatesWithinRowsTimesCols ==
    (0 < N_BOMBS /\ N_BOMBS < ROWS * COLS - 8 /\ ~SolverTerminated) =>
        calls <= ROWS * COLS

\* The step is a guess made inside the loop of start(): the reveal_tile call
\* of open_random_tiles after a tile of priority 2 was popped.
LoopGuess == solver_pc = "open_random_tiles" /\ Called("reveal_tile")

\* The tiles the solver holds when it guesses: those left in active_tiles and
\* the one just popped.
HeldTiles == DOMAIN active_tiles \cup {popped[1]}

\* C20: the solver guesses inside its loop only when no tile it holds, the
\* tile just popped included, is satisfied or satisfiable by the live
\* neighbour counts of the board.
C20_GuessOnlyWhenNothingDecidable ==
    [][LoopGuess =>
          \A t \in HeldTiles :
              ~is_satisfied(State, t) /\ ~is_satisfiable(State, t)]_vars

\* start() has finished handling a popped tile: it is back at its loop test,
\* or it has returned.
Handled == popped # <<>> /\ solver_pc \in {"loop", "done"}

\* Every numbered tile the feedbacks since the last pop named is in
\* active_tiles with the priority the present state gives it.
Requeued ==
    \A t \in fed_back :
        is_numbered(State, t) =>
            /\ t \in DOMAIN active_tiles
            /\ active_tiles[t] = priority_level(State, t)

\* C21 as stated: after the solver has handled a popped tile (guess, chord, or
\* flags and chord), every numbered tile named in the revealed and
\* neighbours_updated sets of the feedbacks of that handling is in
\* active_tiles, with the priority its state after the handling gives.
C21_AffectedTilesRequeued == Handled => Requeued

\* C21 amended: the same, for a handling that leaves the game playing; the
\* tiles named by a feedback that ends the game are not entered.
C21_AffectedTilesRequeuedWhilePlaying ==
    (Handled /\ game_status = "playing") => Requeued

\* C21 witness: a chord has been handled, the game goes on, and a numbered
\* tile its feedback named is held as satisfied.
C21_Witness ==
    /\ Handled
    /\ game_status = "playing"
    /\ call.op = "chord_tile"
    /\ \E t \in fed_back : is_numbered(State, t) /\ t \in DOMAIN active_tiles
                             /\ active_tiles[t] = 0

\* The step is a guess: the reveal_tile call of open_random_tiles, before the
\* loop or inside it.
Guess == solver_pc \in {"start", "open_random_tiles"} /\ Called("reveal_tile")

\* C22: every tile the solver chooses for a guess is hidden and unflagged when
\* reveal_tile is called on it, so that while the status is playing no guess
\* is rejected with flagged or already_revealed.
C22_GuessTargetHiddenUnflagged ==
    [][Guess =>
          /\ is_hidden[<<call'.row, call'.col>>]
          /\ ~is_flagged[<<call'.row, call'.col>>]
          /\ (game_status = "playing" =>
                 ret'.result \notin {"flagged", "already_revealed"})]_vars

\* C23: the loop of the solver runs only while the status is playing: once a
\* feedback has reported won or lost, the solver pops no further tile and
\* makes no further reveal_tile, chord_tile or flag_tile call.
C23_LoopOnlyWhilePlaying ==
    [][game_status # "playing" =>
          ~(Called("pop_active_tile") \/ BoardCall)]_vars

\* start() is at its loop test with a tile to pop.
AtPop == solver_pc = "loop" /\ DOMAIN active_tiles # {}

\* C24: wherever the solver pops from active_tiles, the priority stored for
\* every tile held equals the tile's class by the live neighbour counts (0
\* satisfied, else 1 satisfiable, else 2): no entry is stale.
C24_NoStalePriority ==
    AtPop =>
        \A t \in DOMAIN active_tiles :
            active_tiles[t] = (IF is_satisfied(State, t) THEN 0
                               ELSE IF is_satisfiable(State, t) THEN 1
                               ELSE 2)

\* The step ends the processing of a satisfiable tile in a playing game: the
\* chord that follows its flags or, when the tile is satisfied as well, the
\* chord start() makes itself.
SatisfiableProcessed ==
    /\ game_status = "playing"
    /\ Called("chord_tile")
    /\ \/ solver_pc = "satisfy_tile"
       \/ solver_pc = "act" /\ is_satisfiable(State, popped[1])

\* C25: when the solver processes a satisfiable tile and the status is
\* playing, after the step every neighbour of the tile is revealed or flagged
\* and the number of its flagged neighbours equals its value.
C25_SatisfiableTileResolved ==
    [][SatisfiableProcessed =>
          /\ \A n \in Nbrs(popped[1]) : ~is_hidden'[n] \/ is_flagged'[n]
          /\ Cardinality(flagged_neighbours'[popped[1]]) = value'[popped[1]]]_vars

\* C25 witness: the solver has flagged a neighbour of the popped tile and
\* chorded the tile, and the game goes on.
C25_Witness ==
    /\ solver_pc = "loop"
    /\ game_status = "playing"
    /\ call.op = "chord_tile"
    /\ tiles_to_update # {}
    /\ \E n \in Nbrs(popped[1]) : is_flagged[n] /\ is_hidden[n]

\* C26: in a game played only by the solver from a fresh board, every tile the
\* solver flags is a bomb, no chord_tile call of the solver reveals a bomb,
\* and the status becomes lost only as the result of a guess.
C26_SolverFlagsOnlyBombs ==
    [][/\ (Called("flag_tile") /\ ret'.result = "flagged")
             => is_bomb[<<call'.row, call'.col>>]
       /\ Called("chord_tile")
             => /\ ret'.result # "bomb"
                /\ \A t \in NewlyRevealed : ~is_bomb[t]
       /\ (game_status # "lost" /\ game_status' = "lost") => Guess]_vars

\* C26 witness: the solver has flagged two tiles, both bombs, and its last
\* call was a chord that revealed tiles.
C26_Witness ==
    /\ solver_pc = "loop"
    /\ Cardinality({t \in Tiles : is_flagged[t] /\ is_bomb[t]}) = 2
    /\ call.op = "chord_tile"
    /\ ret.result = "chorded"
    /\ ret.newly_revealed_count > 0

\* The number of bombs on the tiles that touch t, by coordinates.
BombsAround(t) ==
    Cardinality({b \in Tiles : is_bomb[b] /\ b # t /\ Around(b, t[1], t[2])})

\* Every tile without a bomb carries the number of bombs around it.
Numbered == \A t \in Tiles : ~is_bomb[t] => value[t] = BombsAround(t)

\* C27: from mine placement until restart the set of bombs does not change
\* and every tile without a bomb has the number of its bomb neighbours as
\* value: no reveal, flag or chord changes a value or an is_bomb.
C27_BombsAndValuesFixed ==
    [][/\ bombs_placed' => Numbered'
       /\ (bombs_placed /\ ~Called("restart_game"))
             => (is_bomb' = is_bomb /\ value' = value)]_vars

\* C27 witness: on a board with mines placed and a numbered tile open, a
\* further call has set a flag.
C27_Witness ==
    /\ bombs_placed
    /\ calls >= 2
    /\ call.op = "flag_tile"
    /\ ret.result = "flagged"
    /\ \E t \in Tiles : ~is_hidden[t] /\ value[t] > 0

\* C28: within one game (between restarts) a tile that is revealed is never
\* hidden again, and a tile turns from hidden to revealed only during a
\* reveal_tile or chord_tile call that is not rejected.
C28_HiddenOneWay ==
    [][~Called("restart_game") =>
          /\ \A t \in Tiles : ~is_hidden[t] => ~is_hidden'[t]
          /\ NewlyRevealed # {} =>
                /\ Called("reveal_tile") \/ Called("chord_tile")
                /\ ret'.result \notin Rejections(call'.op)]_vars

\* C28 witness: a chord has revealed tiles of a board that had tiles open.
C28_Witness ==
    /\ call.op = "chord_tile"
    /\ ret.result = "chorded"
    /\ ret.newly_revealed_count > 0
    /\ \E t \in Revealed : t \notin ret.affected_tiles.revealed

\* C29: in every reachable state revealed_count is the number of tiles that
\* are revealed and not bombs; every step adds to it exactly the tiles
\* without a bomb that the step reveals, so each is counted once, at the call
\* that reveals it, and bombs are never counted.
C29_RevealedCountExact ==
    [][/\ revealed_count' = Cardinality({t \in Tiles : ~is_hidden'[t] /\ ~is_bomb'[t]})
       /\ ~Called("restart_game") =>
             revealed_count' - revealed_count =
                Cardinality({t \in NewlyRevealed : ~is_bomb'[t]})]_vars

\* C29 witness: a lost game in which tiles without a bomb were revealed by two
\* calls before the bomb was.
C29_Witness ==
    /\ game_status = "lost"
    /\ calls = 3
    /\ revealed_count >= 2
    /\ \E t \in Bombs : ~is_hidden[t]
    /\ \E t \in RevealedSafe : value[t] > 0

\* The step is a reveal_tile or chord_tile call that was accepted and did not
\* return a bomb.
RevealedWithoutBomb ==
    /\ Called("reveal_tile") \/ Called("chord_tile")
    /\ ret'.result \notin Rejections(call'.op) \cup {"bomb"}

\* C30: when a reveal_tile or chord_tile call returns without a bomb, no
\* zero-valued tile it revealed touches a tile that is still hidden and
\* unflagged: the cascade has opened the connected zero-valued tiles and the
\* numbered tiles along them.
C30_CascadeComplete ==
    [][RevealedWithoutBomb =>
          \A t \in NewlyRevealed :
              value'[t] = 0 =>
                  \A n \in Tiles :
                      (n # t /\ Around(n, t[1], t[2])) =>
                          ~(is_hidden'[n] /\ ~is_flagged'[n])]_vars

\* C30 witness: a chord has revealed a zero-valued tile together with
\* numbered ones, with tiles left hidden elsewhere.
C30_Witness ==
    /\ call.op = "chord_tile"
    /\ ret.result = "chorded"
    /\ \E t \in ret.affected_tiles.revealed : value[t] = 0
    /\ \E t \in ret.affected_tiles.revealed : value[t] > 0
    /\ \E t \in Tiles : is_hidden[t] /\ ~is_flagged[t]

\* C31: when the game is won, every tile still hidden is flagged when the
\* winning call returns, and flagged_count equals the number of bombs.
C31_WinFlagsHiddenTiles ==
    [][(game_status # "won" /\ game_status' = "won") =>
          /\ \A t \in Tiles : is_hidden'[t] => is_flagged'[t]
          /\ flagged_count' = N_BOMBS]_vars

\* The step is the call that loses the game.
Losing == game_status # "lost" /\ game_status' = "lost"

\* C32: when the game is lost, every bomb is revealed when the losing call
\* returns, and the loss transition opens no tile without a bomb and leaves
\* revealed_count and flagged_count alone: the tiles without a bomb that the
\* call opened are those its own reveal opened, reported and counted, and
\* flagged_count is what it was.
C32_LossRevealsBombsOnly ==
    [][Losing =>
          /\ \A t \in Tiles : is_bomb'[t] => ~is_hidden'[t]
          /\ \A t \in NewlyRevealed :
                ~is_bomb'[t] => t \in ret'.affected_tiles.revealed
          /\ revealed_count' - revealed_count =
                Cardinality(ret'.affected_tiles.revealed)
          /\ flagged_count' = flagged_count]_vars

\* C32 witness: a chord has lost the game after opening tiles without a bomb,
\* and a bomb away from its target stands revealed.
C32_Witness ==
    /\ game_status = "lost"
    /\ call.op = "chord_tile"
    /\ ret.affected_tiles.revealed # {}
    /\ \E b \in Bombs : ~is_hidden[b] /\ ~Around(b, call.row, call.col)

\* The number of tiles that carry a flag.
FlaggedTiles == {t \in Tiles : is_flagged[t]}

\* C33: in every reachable state flagged_count is the number of tiles with
\* is_flagged set; a step changes it by +1 on a flagged result, by -1 on an
\* unflagged result, to 0 on a restart, and not at all otherwise.
C33_FlaggedCountExact ==
    /\ [](flagged_count = Cardinality(FlaggedTiles))
    /\ [][IF Called("flag_tile") /\ ret'.result = "flagged"
          THEN flagged_count' = flagged_count + 1
          ELSE IF Called("flag_tile") /\ ret'.result = "unflagged"
          THEN flagged_count' = flagged_count - 1
          ELSE IF Called("restart_game")
          THEN flagged_count' = 0
          ELSE flagged_count' = flagged_count]_vars

\* C33 witness: a flag has been set, a cascade has run over it, and a second
\* flag has just been set on a hidden tile.
C33_Witness ==
    /\ call.op = "flag_tile"
    /\ ret.result = "flagged"
    /\ \E t \in Tiles : is_flagged[t] /\ ~is_hidden[t]
    /\ flagged_count = 2

\* The step is a flag_tile call that toggled a flag.
FlagToggled == Called("flag_tile") /\ ret'.result \in {"flagged", "unflagged"}

\* C34: a flag_tile call that toggles a flag changes is_flagged on the
\* targeted tile and on no other, and leaves every tile's is_hidden, value
\* and is_bomb, the status, revealed_count and bombs_placed as they were.
C34_FlagFrame ==
    [][FlagToggled =>
          /\ \A t \in Tiles :
                (is_flagged'[t] # is_flagged[t]) <=> CalledAt("flag_tile", t)
          /\ is_hidden' = is_hidden
          /\ value' = value
          /\ is_bomb' = is_bomb
          /\ game_status' = game_status
          /\ revealed_count' = revealed_count
          /\ bombs_placed' = bombs_placed]_vars

\* C34 witness: with the mines placed and tiles revealed, a flag next to a
\* revealed number has just been taken off again.
C34_Witness ==
    /\ call.op = "flag_tile"
    /\ ret.result = "unflagged"
    /\ bombs_placed
    /\ \E n \in Tiles : /\ ~is_hidden[n]
                        /\ value[n] # 0
                        /\ Around(n, call.row, call.col)

\* ApiMinesweeper.get_board_state: the board as a caller may read it; value
\* and is_bomb of a hidden tile are None.
get_board_state(s) ==
    [t \in Tiles |->
        [is_hidden |-> s.is_hidden[t],
         is_flagged |-> s.is_flagged[t],
         value |-> IF ~s.is_hidden[t] THEN s.value[t] ELSE None,
         is_bomb |-> IF ~s.is_hidden[t]
                     THEN (IF s.is_bomb[t] THEN 1 ELSE 0)
                     ELSE None]]

\* The step is the first click of a game: it places the mines and the game
\* goes on.
MinesPlaced == ~bombs_placed /\ bombs_placed' /\ game_status' = "playing"

\* C35: the result of flag_tile does not depend on the hidden tiles: when the
\* first click could have drawn another mine layout that leaves the same
\* board to read (same revealed tiles, revealed values and flags), flag_tile
\* on any hidden tile returns the same result on both boards, the
\* neighbours_updated set included.
C35_FlagResultHidesMines ==
    [][MinesPlaced =>
          \A bomb_tiles \in Shuffles(<<call'.row, call'.col>>) :
             LET other == reveal_tile(State, call'.row, call'.col, bomb_tiles).s
                 this == State'
             IN get_board_state(other) = get_board_state(this) =>
                   \A t \in Tiles :
                      this.is_hidden[t] =>
                         flag_tile(other, t[1], t[2]).ret =
                            flag_tile(this, t[1], t[2]).ret]_vars

====
